---- MODULE Spec2Model ----
(***************************************************************************)
(* tubely: the thumbnail upload handler (disk-backed and in-memory          *)
(* versions) and the video upload handler (pass-through and transcoding    *)
(* versions) as a state machine.  A request occupies a slot; one action is *)
(* the code a handler runs between two awaits.  The record store, the      *)
(* token validation and the error-to-status translation live outside these *)
(* files and are modelled from their contracts.                            *)
(***************************************************************************)
EXTENDS Integers, Sequences, FiniteSets, TLC

VARIABLES
    db,               \* the record store: video id -> record
    assets,           \* files present under cfg.assetsRoot
    s3,               \* objects present in the bucket
    videoThumbnails,  \* the in-memory version's process-wide Map: video id -> media type
    reqs,             \* slot -> the request it holds: inputs, position, locals, response
    nextName,         \* the next value randomBytes(32) yields (names never repeat)
    received,         \* how many requests have arrived
    dims,             \* the classification alone: a probed <<width, height>>
    aspect            \* the classification alone: the result for dims

vars == <<db, assets, s3, videoThumbnails, reqs, nextName, received, dims, aspect>>

----------------------------------------------------------------------------
(* Bounds *)

\* How many requests arrive in one behaviour.
MaxRequests == 2
\* Probed widths and heights 0..MaxDim are classified (plus the named cases).
MaxDim == 40

----------------------------------------------------------------------------
(* IEEE-754 binary64 arithmetic of `width / height` and of the literals    *)
(* 1.7 and 0.6.  A positive double is [exp, mant]: mant is the 53-bit      *)
(* significand, most significant bit first (always 1), value               *)
(* 2^exp * 1.mant[2..53].  The quotient of two positive integers is        *)
(* produced by long division and rounded to nearest, ties to even.         *)

MantBits == 53

\* Scale n/d into [1, 2): <<n', d', e>> with n/d = 2^e * n'/d', d' <= n' < 2d'.
RECURSIVE Normalize(_, _, _)
Normalize(n, d, e) ==
    IF n < d THEN Normalize(2 * n, d, e - 1)
    ELSE IF n >= 2 * d THEN Normalize(n, 2 * d, e + 1)
    ELSE <<n, d, e>>

\* k more quotient bits of rem/d (rem < d): <<bits, final remainder>>.
RECURSIVE DivBits(_, _, _, _)
DivBits(bits, rem, d, k) ==
    IF k = 0 THEN <<bits, rem>>
    ELSE IF 2 * rem >= d THEN DivBits(Append(bits, 1), 2 * rem - d, d, k - 1)
    ELSE DivBits(Append(bits, 0), 2 * rem, d, k - 1)

\* bits + 1 ulp, carrying from position i leftwards (bits is not all ones).
RECURSIVE Increment(_, _)
Increment(bits, i) ==
    IF bits[i] = 0 THEN [bits EXCEPT ![i] = 1]
    ELSE Increment([bits EXCEPT ![i] = 0], i - 1)

\* The double nearest to n/d, for integers n, d > 0.
Double(n, d) ==
    LET nz == Normalize(n, d, 0)
        q == DivBits(<<1>>, nz[1] - nz[2], nz[2], MantBits - 1)
        bits == q[1]
        rem == q[2]
        up == 2 * rem > nz[2] \/ (2 * rem = nz[2] /\ bits[MantBits] = 1)
    IN  IF ~up THEN [exp |-> nz[3], mant |-> bits]
        ELSE IF \A i \in 1..MantBits : bits[i] = 1
             THEN [exp |-> nz[3] + 1, mant |-> [i \in 1..MantBits |-> IF i = 1 THEN 1 ELSE 0]]
             ELSE [exp |-> nz[3], mant |-> Increment(bits, MantBits)]

\* a <= b on positive doubles.
DoubleLe(a, b) ==
    \/ a.exp < b.exp
    \/ /\ a.exp = b.exp
       /\ LET diff == {i \in 1..MantBits : a.mant[i] # b.mant[i]}
          IN  diff = {} \/ LET i == CHOOSE j \in diff : \A k \in diff : j <= k
                           IN  a.mant[i] < b.mant[i]

\* The literal 1.7: the double nearest to 17/10.
Landscape == Double(17, 10)
\* The literal 0.6: the double nearest to 6/10.
Portrait == Double(6, 10)

----------------------------------------------------------------------------
(* getVideoAspectRatio *)

\* A width or height the probe's JSON does not carry (undefined).
NoDim == -1

\* `!height || !width`: undefined and 0 are falsy.
Falsy(x) == x = NoDim \/ x = 0

\* `aspectRatio >= 1.7` (IsLandscapeMut: `>` in its place).
IsLandscapeMut(aspectRatio) == ~DoubleLe(aspectRatio, Landscape)
IsLandscape(aspectRatio) == DoubleLe(Landscape, aspectRatio)

\* `aspectRatio <= 0.6`.
IsPortrait(aspectRatio) == DoubleLe(aspectRatio, Portrait)

\* The classification of a probed width and height, or the error thrown.
ClassifyAspectRatio(width, height) ==
    IF Falsy(height) \/ Falsy(width) THEN "Failed to get video dimensions"
    ELSE LET aspectRatio == Double(width, height)
         IN  IF IsLandscape(aspectRatio) THEN "landscape"
             ELSE IF IsPortrait(aspectRatio) THEN "portrait"
             ELSE "other"

\* ffprobe's outcome is [exitCode, width, height]; the result is a class or
\* the message of the error thrown.
getVideoAspectRatio(probe) ==
    IF probe.exitCode # 0 THEN "Failed to get video info"
    ELSE ClassifyAspectRatio(probe.width, probe.height)

AspectClasses == {"landscape", "portrait", "other"}

----------------------------------------------------------------------------
(* Collaborators outside these files, from their contracts *)

Users == {"u1", "u2"}

\* validateJWT: the user a valid signed token names.
TokenSubject == ("tok-u1" :> "u1") @@ ("tok-u2" :> "u2")

\* "" is a request with no Authorization header (getBearerToken throws),
\* "bad" a token validateJWT rejects.
Tokens == {"", "bad"} \cup DOMAIN TokenSubject

Authenticated(token) == token \in DOMAIN TokenSubject

validateJWT(token) == TokenSubject[token]

\* A URL: the fixed base, a directory part, a random name, an extension.
NullURL == [base |-> "", dir |-> "", name |-> 0, ext |-> ""]

\* What getVideo returns for an id with no record (undefined).
NoVideo ==
    [id |-> "", userID |-> "", title |-> "", description |-> "", createdAt |-> 0,
     thumbnailURL |-> NullURL, videoURL |-> NullURL]

getVideo(d, id) == IF id \in DOMAIN d THEN d[id] ELSE NoVideo

\* updateVideo persists the full record under its id.
updateVideo(d, video) == [d EXCEPT ![video.id] = video]

\* The shared error translation: error class -> HTTP status.
StatusOf(kind) ==
    CASE kind = "BadRequestError" -> 400
      [] kind = "UserNotAuthenticatedError" -> 401
      [] kind = "UserForbiddenError" -> 403
      [] kind = "NotFoundError" -> 404
      [] OTHER -> 500

NoResp == [status |-> 0, error |-> "", message |-> "", body |-> NoVideo]

\* The response to a thrown error of class kind.
Thrown(kind, message) ==
    [status |-> StatusOf(kind), error |-> kind, message |-> message, body |-> NoVideo]

respondWithJSON(status, video) ==
    [status |-> status, error |-> "", message |-> "", body |-> video]

----------------------------------------------------------------------------
(* Requests *)

Slots == {1, 2}

\* Path parameters: absent (""), an id with a record, an id with none.
VideoIds == {"", "v1", "v9"}

\* Media types, split at "/".
Types == {<<"image", "png">>, <<"image", "jpeg">>, <<"video", "mp4">>}

\* formData.get(..) when it is no File: absent, or a string field.
NoFile == [present |-> FALSE, size |-> 0, type |-> <<>>]

ThumbnailHandlers == {"thumbnail", "thumbnailMem"}
VideoHandlers == {"video", "videoSimple"}

\* The thumbnail handler's MAX_UPLOAD_SIZE = 10 << 20.
MAX_UPLOAD_SIZE_THUMBNAIL == 10 * (2 ^ 20)
\* The video handler's MAX_UPLOAD_SIZE = 1 << 30.
MAX_UPLOAD_SIZE_VIDEO == 2 ^ 30

MaxSize(h) ==
    IF h \in ThumbnailHandlers THEN MAX_UPLOAD_SIZE_THUMBNAIL ELSE MAX_UPLOAD_SIZE_VIDEO

\* The form fields a request to handler h may carry: every type, at a small
\* size, at the handler's cap and one byte over it.
Forms(h) ==
    {NoFile} \cup [present : {TRUE}, size : {2048, MaxSize(h), MaxSize(h) + 1}, type : Types]

\* The requests that run interleaved with others: no file or a small one the
\* handler accepts, a rejected token or a valid one.
ConcForms(h) ==
    {NoFile, [present |-> TRUE, size |-> 2048,
              type |-> IF h \in ThumbnailHandlers THEN <<"image", "png">>
                       ELSE <<"video", "mp4">>]}
ConcVideoIds == {"v1", "v2"}
ConcTokens == {"bad"} \cup DOMAIN TokenSubject

\* ffprobe's outcomes.
Probes ==
    [exitCode : {0}, width : {1920, 0}, height : {1080}]
    \cup [exitCode : {1}, width : {NoDim}, height : {NoDim}]

Idle ==
    [pc |-> "idle", handler |-> "", videoId |-> "", token |-> "", form |-> NoFile,
     userID |-> "", video |-> NoVideo, fileName |-> 0, type |-> <<>>, ext |-> "",
     aspectRatio |-> "", exitCode |-> 0, resp |-> NoResp]

\* The handler returns, or an error it throws reaches the translation layer.
Respond(r, resp) == [r EXCEPT !.pc = "done", !.resp = resp]

Throw(r, kind, message) == Respond(r, Thrown(kind, message))

\* `video.userID !== userID` is false (IsOwnerMut: the comparison dropped).
IsOwnerMut(video, userID) == TRUE
IsOwner(video, userID) == video.userID = userID

----------------------------------------------------------------------------
(* Names, files, keys and URLs *)

\* `${fileName}.${type}` under cfg.assetsRoot.
ThumbnailFile(fileName, ext) == [name |-> fileName, ext |-> ext]
\* filePath: the random name with the fixed ".mp4".
VideoFile(fileName) == [name |-> fileName, ext |-> "mp4"]
\* `${inputFilePath}.processed`.
ProcessedFile(fileName) == [name |-> fileName, ext |-> "mp4.processed"]

\* The object key: `${aspectRatio}/${fileName}`, or fileName alone in the
\* pass-through version (aspectRatio is "" there).
S3Key(aspectRatio, fileName) == [prefix |-> aspectRatio, name |-> fileName]

ThumbnailURL(fileName, ext) ==
    [base |-> "http://localhost:8091/assets", dir |-> "", name |-> fileName, ext |-> ext]
ThumbnailMemURL(id) ==
    [base |-> "http://localhost:port/api/thumbnails", dir |-> id, name |-> 0, ext |-> ""]
VideoURL(aspectRatio, fileName) ==
    [base |-> "https://bucket.s3.region.amazonaws.com", dir |-> aspectRatio,
     name |-> fileName, ext |-> "mp4"]

\* `video.thumbnailURL = thumbnailUrl` (SetThumbnailURLMut: videoURL reset too).
SetThumbnailURLMut(video, url) == [video EXCEPT !.thumbnailURL = url, !.videoURL = NullURL]
SetThumbnailURL(video, url) == [video EXCEPT !.thumbnailURL = url]

\* `video.videoURL = ...`.
SetVideoURL(video, url) == [video EXCEPT !.videoURL = url]

\* file.delete() (DeleteFileMut: the file is left in place).
DeleteFileMut(files, f) == files
DeleteFile(files, f) == files \ {f}

----------------------------------------------------------------------------
(* The checks on the uploaded form field: the message of the first that    *)
(* fails, "" when all pass.                                                *)

\* ThumbnailFileErrorMut: the media type checked before the size.
ThumbnailFileErrorMut(thumbnail) ==
    IF ~thumbnail.present THEN "Thumbnail file missing"
    ELSE IF thumbnail.type \notin {<<"image", "png">>, <<"image", "jpeg">>}
         THEN "Unsupported file type"
    ELSE IF thumbnail.size > MAX_UPLOAD_SIZE_THUMBNAIL THEN "File too large"
    ELSE ""

\* The disk-backed version.
ThumbnailFileError(thumbnail) ==
    IF ~thumbnail.present THEN "Thumbnail file missing"
    ELSE IF thumbnail.size > MAX_UPLOAD_SIZE_THUMBNAIL THEN "File too large"
    ELSE IF thumbnail.type \notin {<<"image", "png">>, <<"image", "jpeg">>}
         THEN "Unsupported file type"
    ELSE ""

\* The in-memory version: no check of the media type.
ThumbnailMemFileError(thumbnail) ==
    IF ~thumbnail.present THEN "Thumbnail file missing"
    ELSE IF thumbnail.size > MAX_UPLOAD_SIZE_THUMBNAIL THEN "File too large"
    ELSE ""

\* VideoFileErrorMut: `>=` in place of `>` at the size cap.
VideoFileErrorMut(videoFile) ==
    IF ~videoFile.present THEN "Video file missing"
    ELSE IF videoFile.size >= MAX_UPLOAD_SIZE_VIDEO THEN "File too large"
    ELSE IF videoFile.type # <<"video", "mp4">> THEN "Unsupported file type"
    ELSE ""

VideoFileError(videoFile) ==
    IF ~videoFile.present THEN "Video file missing"
    ELSE IF videoFile.size > MAX_UPLOAD_SIZE_VIDEO THEN "File too large"
    ELSE IF videoFile.type # <<"video", "mp4">> THEN "Unsupported file type"
    ELSE ""

\* processVideoForFastStart: `proc.exitCode !== 0` (RemuxFailedMut: the exit
\* code ignored).
RemuxFailedMut(exitCode) == FALSE
RemuxFailed(exitCode) == exitCode # 0

----------------------------------------------------------------------------
(* Thumbnail upload *)

storeVars == <<db, assets, s3, videoThumbnails, nextName>>
classifyVars == <<dims, aspect>>

\* From the call to `await req.formData()`.
handlerUploadThumbnail(s, h, videoId, token, form) ==
    /\ reqs[s].pc = "idle"
    /\ received < MaxRequests
    /\ received' = received + 1
    /\ LET r == [Idle EXCEPT !.handler = h, !.videoId = videoId, !.token = token,
                             !.form = form]
       IN  reqs' = [reqs EXCEPT ![s] =
               IF videoId = "" THEN Throw(r, "BadRequestError", "Invalid video ID")
               ELSE IF ~Authenticated(token)
                    THEN Throw(r, "UserNotAuthenticatedError", "Invalid token")
               ELSE [r EXCEPT !.pc = "formData", !.userID = validateJWT(token)]]
    /\ UNCHANGED <<storeVars, classifyVars>>

\* formData resolved: the checks on the field, to `await thumbnail.arrayBuffer()`.
ThumbnailFormData(s) ==
    /\ reqs[s].pc = "formData"
    /\ reqs[s].handler \in ThumbnailHandlers
    /\ LET r == reqs[s]
           thumbnail == r.form
           err == IF r.handler = "thumbnail" THEN ThumbnailFileError(thumbnail)
                  ELSE ThumbnailMemFileError(thumbnail)
       IN  reqs' = [reqs EXCEPT ![s] =
               IF err # "" THEN Throw(r, "BadRequestError", err)
               ELSE IF r.handler = "thumbnail"
                    THEN [r EXCEPT !.pc = "arrayBuffer", !.ext = thumbnail.type[2]]
               ELSE [r EXCEPT !.pc = "arrayBuffer", !.type = thumbnail.type]]
    /\ UNCHANGED <<storeVars, classifyVars, received>>

\* arrayBuffer resolved: the lookup and the ownership check; the disk-backed
\* version goes on to `await Bun.write`, the in-memory version to its return.
ThumbnailArrayBuffer(s) ==
    /\ reqs[s].pc = "arrayBuffer"
    /\ reqs[s].handler \in ThumbnailHandlers
    /\ LET r == reqs[s]
           video == getVideo(db, r.videoId)
       IN  IF video = NoVideo
           THEN /\ reqs' = [reqs EXCEPT ![s] = Throw(r, "NotFoundError", "Video not found")]
                /\ UNCHANGED storeVars
           ELSE IF ~IsOwner(video, r.userID)
           THEN /\ reqs' = [reqs EXCEPT ![s] = Throw(r, "UserForbiddenError", "Forbidden")]
                /\ UNCHANGED storeVars
           ELSE IF r.handler = "thumbnail"
           THEN /\ nextName' = nextName + 1
                /\ reqs' = [reqs EXCEPT ![s] =
                       [r EXCEPT !.pc = "write", !.video = video, !.fileName = nextName]]
                /\ UNCHANGED <<db, assets, s3, videoThumbnails>>
           ELSE LET updated == SetThumbnailURL(video, ThumbnailMemURL(video.id))
                IN  /\ videoThumbnails' = (video.id :> r.type) @@ videoThumbnails
                    /\ db' = updateVideo(db, updated)
                    /\ reqs' = [reqs EXCEPT ![s] =
                           Respond([r EXCEPT !.video = updated],
                                   respondWithJSON(200, getVideo(db', video.id)))]
                    /\ UNCHANGED <<assets, s3, nextName>>
    /\ UNCHANGED <<classifyVars, received>>

\* Bun.write settled (disk-backed version): the record update and the return.
ThumbnailWrite(s, ok) ==
    /\ reqs[s].pc = "write"
    /\ reqs[s].handler = "thumbnail"
    /\ LET r == reqs[s]
           updated == SetThumbnailURL(r.video, ThumbnailURL(r.fileName, r.ext))
       IN  IF ok
           THEN /\ assets' = assets \cup {ThumbnailFile(r.fileName, r.ext)}
                /\ db' = updateVideo(db, updated)
                /\ reqs' = [reqs EXCEPT ![s] =
                       Respond([r EXCEPT !.video = updated],
                               respondWithJSON(200, getVideo(db', updated.id)))]
           ELSE /\ reqs' = [reqs EXCEPT ![s] = Throw(r, "Error", "write failed")]
                /\ UNCHANGED <<db, assets>>
    /\ UNCHANGED <<s3, videoThumbnails, nextName, classifyVars, received>>

----------------------------------------------------------------------------
(* Video upload *)

\* From the call to `await req.formData()`.
handlerUploadVideo(s, h, videoId, token, form) ==
    /\ reqs[s].pc = "idle"
    /\ received < MaxRequests
    /\ received' = received + 1
    /\ LET r == [Idle EXCEPT !.handler = h, !.videoId = videoId, !.token = token,
                             !.form = form]
           userID == validateJWT(token)
           video == getVideo(db, videoId)
       IN  reqs' = [reqs EXCEPT ![s] =
               IF videoId = "" THEN Throw(r, "BadRequestError", "Invalid video ID")
               ELSE IF ~Authenticated(token)
                    THEN Throw(r, "UserNotAuthenticatedError", "Invalid token")
               ELSE IF video = NoVideo
                    THEN Throw([r EXCEPT !.userID = userID], "BadRequestError", "Video not found")
               ELSE IF ~IsOwner(video, userID)
                    THEN Throw([r EXCEPT !.userID = userID], "UserForbiddenError", "Forbidden")
               ELSE [r EXCEPT !.pc = "formData", !.userID = userID, !.video = video]]
    /\ UNCHANGED <<storeVars, classifyVars>>

\* formData resolved: the checks on the field and the random name, to
\* `await videoFile.arrayBuffer()`.
VideoFormData(s) ==
    /\ reqs[s].pc = "formData"
    /\ reqs[s].handler \in VideoHandlers
    /\ LET r == reqs[s]
           videoFile == r.form
           err == VideoFileError(videoFile)
       IN  IF err # ""
           THEN /\ reqs' = [reqs EXCEPT ![s] = Throw(r, "BadRequestError", err)]
                /\ UNCHANGED nextName
           ELSE /\ nextName' = nextName + 1
                /\ reqs' = [reqs EXCEPT ![s] =
                       [r EXCEPT !.pc = "arrayBuffer", !.type = videoFile.type,
                                 !.fileName = nextName]]
    /\ UNCHANGED <<db, assets, s3, videoThumbnails, classifyVars, received>>

\* arrayBuffer resolved: to `await Bun.write`.
VideoArrayBuffer(s) ==
    /\ reqs[s].pc = "arrayBuffer"
    /\ reqs[s].handler \in VideoHandlers
    /\ reqs' = [reqs EXCEPT ![s].pc = "write"]
    /\ UNCHANGED <<storeVars, classifyVars, received>>

\* Bun.write settled: the transcoding version spawns the probe, the
\* pass-through version starts the upload of the file it wrote.
VideoWrite(s, ok) ==
    /\ reqs[s].pc = "write"
    /\ reqs[s].handler \in VideoHandlers
    /\ LET r == reqs[s]
       IN  IF ok
           THEN /\ assets' = assets \cup {VideoFile(r.fileName)}
                /\ reqs' = [reqs EXCEPT ![s].pc =
                       IF r.handler = "video" THEN "probe" ELSE "s3"]
           ELSE /\ reqs' = [reqs EXCEPT ![s] = Throw(r, "Error", "write failed")]
                /\ UNCHANGED assets
    /\ UNCHANGED <<db, s3, videoThumbnails, nextName, classifyVars, received>>

\* The probe exited: getVideoAspectRatio returns or throws; on a return
\* processVideoForFastStart spawns the remux.
VideoProbe(s, probe) ==
    /\ reqs[s].pc = "probe"
    /\ LET r == [reqs[s] EXCEPT !.exitCode = probe.exitCode]
           aspectRatio == getVideoAspectRatio(probe)
       IN  reqs' = [reqs EXCEPT ![s] =
               IF aspectRatio \notin AspectClasses THEN Throw(r, "Error", aspectRatio)
               ELSE [r EXCEPT !.pc = "remux", !.aspectRatio = aspectRatio]]
    /\ UNCHANGED <<storeVars, classifyVars, received>>

\* The remux exited.  A run that exited 0 wrote the output file; a failed
\* run may or may not leave one behind (partial).  On exit code 0
\* processVideoForFastStart returns and the upload starts.
VideoRemux(s, exitCode, partial) ==
    /\ reqs[s].pc = "remux"
    /\ assets' = IF exitCode = 0 \/ partial
                 THEN assets \cup {ProcessedFile(reqs[s].fileName)}
                 ELSE assets
    /\ LET r == [reqs[s] EXCEPT !.exitCode = exitCode]
       IN  reqs' = [reqs EXCEPT ![s] =
               IF RemuxFailed(exitCode) THEN Throw(r, "Error", "Failed to process video")
               ELSE [r EXCEPT !.pc = "s3"]]
    /\ UNCHANGED <<db, s3, videoThumbnails, nextName, classifyVars, received>>

\* The object-store write settled: to `await file.delete()`.
VideoS3(s, ok) ==
    /\ reqs[s].pc = "s3"
    /\ LET r == reqs[s]
       IN  IF ok
           THEN /\ s3' = s3 \cup {S3Key(r.aspectRatio, r.fileName)}
                /\ reqs' = [reqs EXCEPT ![s].pc = "deleteFile"]
           ELSE /\ reqs' = [reqs EXCEPT ![s] = Throw(r, "Error", "upload failed")]
                /\ UNCHANGED s3
    /\ UNCHANGED <<db, assets, videoThumbnails, nextName, classifyVars, received>>

\* The record update and the return, shared by the two deletions below.
VideoFinish(s) ==
    LET r == reqs[s]
        updated == SetVideoURL(r.video, VideoURL(r.aspectRatio, r.fileName))
    IN  /\ db' = updateVideo(db, updated)
        /\ reqs' = [reqs EXCEPT ![s] =
               Respond([r EXCEPT !.video = updated],
                       respondWithJSON(200, getVideo(db', r.videoId)))]

\* file.delete() settled: the transcoding version goes on to
\* `await processedFile.delete()`, the pass-through version to its return.
VideoDeleteFile(s, ok) ==
    /\ reqs[s].pc = "deleteFile"
    /\ LET r == reqs[s]
       IN  IF ~ok
           THEN /\ reqs' = [reqs EXCEPT ![s] = Throw(r, "Error", "delete failed")]
                /\ UNCHANGED <<db, assets>>
           ELSE /\ assets' = DeleteFile(assets, VideoFile(r.fileName))
                /\ IF r.handler = "video"
                   THEN /\ reqs' = [reqs EXCEPT ![s].pc = "deleteProcessed"]
                        /\ UNCHANGED db
                   ELSE VideoFinish(s)
    /\ UNCHANGED <<s3, videoThumbnails, nextName, classifyVars, received>>

\* processedFile.delete() settled: the record update and the return.
VideoDeleteProcessed(s, ok) ==
    /\ reqs[s].pc = "deleteProcessed"
    /\ LET r == reqs[s]
       IN  IF ~ok
           THEN /\ reqs' = [reqs EXCEPT ![s] = Throw(r, "Error", "delete failed")]
                /\ UNCHANGED <<db, assets>>
           ELSE /\ assets' = DeleteFile(assets, ProcessedFile(r.fileName))
                /\ VideoFinish(s)
    /\ UNCHANGED <<s3, videoThumbnails, nextName, classifyVars, received>>

\* The response has been sent: the slot is free for the next request.
Reset(s) ==
    /\ reqs[s].pc = "done"
    /\ reqs' = [reqs EXCEPT ![s] = Idle]
    /\ UNCHANGED <<storeVars, classifyVars, received>>

----------------------------------------------------------------------------
(* The server *)

\* The records the store holds when the server starts.
InitialVideos ==
    [id \in {"v1", "v2"} |->
        [id |-> id, userID |-> IF id = "v1" THEN "u1" ELSE "u2", title |-> "title", description |-> "description",
         createdAt |-> 1, thumbnailURL |-> NullURL, videoURL |-> NullURL]]

Init ==
    /\ db = InitialVideos
    /\ assets = {}
    /\ s3 = {}
    /\ videoThumbnails = << >>
    /\ reqs = [s \in Slots |-> Idle]
    /\ nextName = 1
    /\ received = 0
    /\ dims = <<NoDim, NoDim>>
    /\ aspect = "pending"

\* Slot s takes a request; wide says whether the whole range of form fields
\* is drawn from.
Receive(s, wide) ==
    \/ \E h \in ThumbnailHandlers :
         \E videoId \in (IF wide THEN VideoIds ELSE ConcVideoIds),
            token \in (IF wide THEN Tokens ELSE ConcTokens),
            form \in (IF wide THEN Forms(h) ELSE ConcForms(h)) :
               handlerUploadThumbnail(s, h, videoId, token, form)
    \/ \E h \in VideoHandlers :
         \E videoId \in (IF wide THEN VideoIds ELSE ConcVideoIds),
            token \in (IF wide THEN Tokens ELSE ConcTokens),
            form \in (IF wide THEN Forms(h) ELSE ConcForms(h)) :
               handlerUploadVideo(s, h, videoId, token, form)

\* An await of the request in slot s settles.
Step(s) ==
    \/ ThumbnailFormData(s)
    \/ ThumbnailArrayBuffer(s)
    \/ \E ok \in BOOLEAN : ThumbnailWrite(s, ok)
    \/ VideoFormData(s)
    \/ VideoArrayBuffer(s)
    \/ \E ok \in BOOLEAN : VideoWrite(s, ok)
    \/ \E probe \in Probes : VideoProbe(s, probe)
    \/ \E exitCode \in {0, 1}, partial \in BOOLEAN : VideoRemux(s, exitCode, partial)
    \/ \E ok \in BOOLEAN : VideoS3(s, ok)
    \/ \E ok \in BOOLEAN : VideoDeleteFile(s, ok)
    \/ \E ok \in BOOLEAN : VideoDeleteProcessed(s, ok)
    \/ Reset(s)

\* Requests are served concurrently: the steps of the slots interleave.
Next == \E s \in Slots : Receive(s, FALSE) \/ Step(s)

Spec == Init /\ [][Next]_vars

\* Slot 1 serves, and no other slot holds a request.
Quiet(s) == s = 1 /\ \A t \in Slots \ {s} : reqs[t].pc = "idle"

\* One request at a time, over the whole range of inputs.
NextSeq == \E s \in Slots : (Quiet(s) /\ Receive(s, TRUE)) \/ Step(s)

SpecSeq == Init /\ [][NextSeq]_vars

----------------------------------------------------------------------------
(* The classification alone, over a range of probed dimensions *)

Dims == (0..MaxDim) \cup {NoDim, 950, 1000, 1080, 1920}

InitClassify ==
    /\ db = InitialVideos
    /\ assets = {}
    /\ s3 = {}
    /\ videoThumbnails = << >>
    /\ reqs = [s \in Slots |-> Idle]
    /\ nextName = 1
    /\ received = 0
    /\ dims \in Dims \X Dims
    /\ aspect = "pending"

Classify ==
    /\ aspect = "pending"
    /\ aspect' = ClassifyAspectRatio(dims[1], dims[2])
    /\ UNCHANGED <<storeVars, reqs, received, dims>>

NextClassify == Classify

SpecClassify == InitClassify /\ [][NextClassify]_vars

----------------------------------------------------------------------------
(* Vocabulary of the properties *)

Done(s) == reqs[s].pc = "done"

\* The step answers the request in slot s.
Answers(s) == reqs[s].pc \notin {"idle", "done"} /\ reqs'[s].pc = "done"

\* Receiving can answer at once: the step takes slot s from idle to done.
AnswersAtOnce(s) == reqs[s].pc = "idle" /\ reqs'[s].pc = "done"

Returns200(s) == (Answers(s) \/ AnswersAtOnce(s)) /\ reqs'[s].resp.status = 200

HasRecord(r) == r.videoId \in DOMAIN db

\* The request carries a valid token of the owner of the record it names.
ByOwner(r) ==
    /\ Authenticated(r.token)
    /\ HasRecord(r)
    /\ db[r.videoId].userID = TokenSubject[r.token]

\* The request carries a valid token of a user who does not own the record.
ByOtherUser(r) ==
    /\ Authenticated(r.token)
    /\ HasRecord(r)
    /\ db[r.videoId].userID # TokenSubject[r.token]

AcceptedImage(form) ==
    /\ form.present
    /\ form.size <= 10485760
    /\ form.type \in {<<"image", "png">>, <<"image", "jpeg">>}

AcceptedVideo(form) ==
    /\ form.present
    /\ form.size <= 1073741824
    /\ form.type = <<"video", "mp4">>

\* A file the handler of request r accepts.
ValidFile(r) ==
    IF r.handler \in ThumbnailHandlers THEN AcceptedImage(r.form) ELSE AcceptedVideo(r.form)

\* The status the error taxonomy gives the check named by its message.
StatusByCheck(message) ==
    CASE message \in {"Invalid video ID", "Thumbnail file missing", "Video file missing",
                      "File too large", "Unsupported file type"} -> 400
      [] message = "Invalid token" -> 401
      [] message = "Forbidden" -> 403
      [] message = "Video not found" -> 404
      [] OTHER -> 500

----------------------------------------------------------------------------
(* C1 *)

\* C1: a thumbnail or video upload with a valid token of a user other than
\* the record's owner and a file the handler accepts never gets past the
\* ownership check (no write, no probe, no upload, no update) and, once
\* answered, has the forbidden error, status 403, never 200.
C1_OtherUserForbidden ==
    \A s \in Slots :
        LET r == reqs[s]
        IN  (r.pc # "idle" /\ ByOtherUser(r) /\ ValidFile(r)) =>
                /\ r.pc \in {"formData", "arrayBuffer", "done"}
                /\ r.pc \in {"formData", "arrayBuffer"} => r.handler \in ThumbnailHandlers
                /\ Done(s) => /\ r.resp.status = 403
                              /\ r.resp.error = "UserForbiddenError"

\* Both kinds of upload, by u2 for u1's record with an accepted file, answered 403.
C1_Witness ==
    /\ Done(1) /\ reqs[1].handler = "thumbnail" /\ reqs[1].resp.status = 403
    /\ reqs[1].token = "tok-u2" /\ reqs[1].videoId = "v1" /\ AcceptedImage(reqs[1].form)
    /\ Done(2) /\ reqs[2].handler = "video" /\ reqs[2].resp.status = 403
    /\ reqs[2].token = "tok-u2" /\ reqs[2].videoId = "v1" /\ AcceptedVideo(reqs[2].form)

----------------------------------------------------------------------------
(* C2 *)

\* C2: in every step of every interleaving, a stored record changes only in
\* the step in which a request for that record, carrying a valid token of
\* the record's owner, performs its record update and returns 200; the
\* change leaves the record's id and owner alone.  So no request of another
\* user and no unauthenticated request ever changes a stored record.
C2_OnlyOwnerMutates ==
    [][\A v \in DOMAIN db :
          db'[v] # db[v] =>
              /\ db'[v].id = db[v].id
              /\ db'[v].userID = db[v].userID
              /\ \E s \in Slots :
                    /\ Returns200(s)
                    /\ reqs[s].videoId = v
                    /\ ByOwner(reqs[s])
                    /\ \A t \in Slots \ {s} : reqs'[t] = reqs[t]]_vars

\* u1's record has been changed while a request of u2 for it was answered.
C2_Witness ==
    /\ db["v1"].thumbnailURL # NullURL
    /\ \E s \in Slots :
          /\ Done(s) /\ reqs[s].videoId = "v1" /\ reqs[s].token = "tok-u2"
          /\ reqs[s].form.present /\ reqs[s].resp.status = 403

----------------------------------------------------------------------------
(* C3 *)

\* The check of a thumbnail upload that fails first, by its message ("" when
\* none fails), in the order the handlers apply them.
ThumbnailVerdict(r) ==
    IF r.videoId = "" THEN "Invalid video ID"
    ELSE IF ~Authenticated(r.token) THEN "Invalid token"
    ELSE IF ~r.form.present THEN "Thumbnail file missing"
    ELSE IF r.form.size > 10485760 THEN "File too large"
    ELSE IF /\ r.handler = "thumbnail"
            /\ r.form.type \notin {<<"image", "png">>, <<"image", "jpeg">>}
         THEN "Unsupported file type"
    ELSE IF ~HasRecord(r) THEN "Video not found"
    ELSE IF ~ByOwner(r) THEN "Forbidden"
    ELSE ""

\* The same with the lookup placed third and the media type checked in both
\* versions.
ThumbnailVerdictLookupThird(r) ==
    IF r.videoId = "" THEN "Invalid video ID"
    ELSE IF ~Authenticated(r.token) THEN "Invalid token"
    ELSE IF ~HasRecord(r) THEN "Video not found"
    ELSE IF ~r.form.present THEN "Thumbnail file missing"
    ELSE IF r.form.size > 10485760 THEN "File too large"
    ELSE IF r.form.type \notin {<<"image", "png">>, <<"image", "jpeg">>}
         THEN "Unsupported file type"
    ELSE IF ~ByOwner(r) THEN "Forbidden"
    ELSE ""

\* The answer to request r is the error of check `verdict`, or no
\* validation error when verdict is "".
AnsweredBy(r, verdict) ==
    IF verdict = "" THEN r.resp.status \in {200, 500}
    ELSE r.resp.message = verdict /\ r.resp.status = StatusByCheck(verdict)

\* C3 as amended: the thumbnail upload handler applies its checks in the
\* order video identifier present, token valid, form field is a file, size
\* at most 10 MiB, media type in {image/png, image/jpeg} (disk-backed version
\* only), record lookup, owner equals authenticated user, and returns the
\* error of the first check in this order that fails.
C3_ThumbnailOrder ==
    \A s \in Slots :
        (Done(s) /\ reqs[s].handler \in ThumbnailHandlers) =>
            AnsweredBy(reqs[s], ThumbnailVerdict(reqs[s]))

\* An authenticated request for an id with no record and no file: 400.
C3_Witness ==
    \E s \in Slots :
        /\ Done(s) /\ reqs[s].handler = "thumbnail"
        /\ reqs[s].videoId = "v9" /\ Authenticated(reqs[s].token)
        /\ ~reqs[s].form.present
        /\ reqs[s].resp.status = 400 /\ reqs[s].resp.message = "Thumbnail file missing"

\* C3 as stated: the lookup comes third, before the checks on the form
\* field, so an authenticated request for an id with no record is answered
\* not-found even when the field is missing, oversize or of another type.
C3_LookupBeforeFileChecks ==
    \A s \in Slots :
        (Done(s) /\ reqs[s].handler \in ThumbnailHandlers) =>
            AnsweredBy(reqs[s], ThumbnailVerdictLookupThird(reqs[s]))

----------------------------------------------------------------------------
(* C4 *)

\* The check of a video upload that fails first, by its message.
VideoVerdict(r) ==
    IF r.videoId = "" THEN "Invalid video ID"
    ELSE IF ~Authenticated(r.token) THEN "Invalid token"
    ELSE IF ~HasRecord(r) THEN "Video not found"
    ELSE IF ~ByOwner(r) THEN "Forbidden"
    ELSE IF ~r.form.present THEN "Video file missing"
    ELSE IF r.form.size > 1073741824 THEN "File too large"
    ELSE IF r.form.type # <<"video", "mp4">> THEN "Unsupported file type"
    ELSE ""

\* C4: the video upload handler applies its checks in the order identifier,
\* authentication, record lookup, ownership, file presence, size cap
\* (size > 2^30 rejected, size = 2^30 accepted), media type exactly
\* video/mp4, and returns the error of the first that fails; a request is
\* past the synchronous prefix (its body being parsed, a name drawn, a file
\* written) only when it carries the owner's token.
C4_VideoOrder ==
    \A s \in Slots :
        LET r == reqs[s]
            verdict == VideoVerdict(r)
        IN  r.handler \in VideoHandlers =>
                /\ Done(s) => IF verdict = "" THEN r.resp.status \in {200, 500}
                              ELSE r.resp.message = verdict
                /\ (r.pc \notin {"idle", "done"} \/ r.fileName # 0) => ByOwner(r)
                /\ ~ByOwner(r) => /\ VideoFile(r.fileName) \notin assets
                                  /\ ProcessedFile(r.fileName) \notin assets

\* A file of exactly 2^30 bytes accepted and one of 2^30 + 1 not: seen as an
\* upload at the cap that returned 200.
C4_Witness ==
    \E s \in Slots :
        /\ Done(s) /\ reqs[s].handler = "video"
        /\ reqs[s].form.size = 1073741824
        /\ reqs[s].resp.status = 200

----------------------------------------------------------------------------
(* C5 *)

\* C5: in both upload handlers an authenticated request, with a file the
\* handler accepts, whose video identifier matches no record is answered
\* with the not-found error, status 404.
C5_UnknownVideoIs404 ==
    \A s \in Slots :
        LET r == reqs[s]
        IN  (Done(s) /\ r.videoId # "" /\ Authenticated(r.token) /\ ~HasRecord(r)
             /\ ValidFile(r)) =>
                r.resp.status = 404 /\ r.resp.error = "NotFoundError"

----------------------------------------------------------------------------
(* C6 *)

\* C6: for a probed width and height, both positive, the class is
\* "landscape" exactly when 10*width >= 17*height, "portrait" exactly when
\* 10*width <= 6*height and "other" otherwise, both boundaries inclusive;
\* (1920,1080) is landscape, (1080,1920) portrait, (1000,950) other; a
\* width or height that is 0 or absent gives the error instead of a class.
C6_AspectRatioClasses ==
    aspect # "pending" =>
        LET width == dims[1]
            height == dims[2]
        IN  /\ (width > 0 /\ height > 0) =>
                /\ aspect \in AspectClasses
                /\ aspect = "landscape" <=> 10 * width >= 17 * height
                /\ aspect = "portrait" <=> 10 * width <= 6 * height
                /\ aspect = "other" <=>
                       (10 * width < 17 * height /\ 10 * width > 6 * height)
            /\ (width \in {0, NoDim} \/ height \in {0, NoDim}) =>
                   aspect = "Failed to get video dimensions"
            /\ dims = <<1920, 1080>> => aspect = "landscape"
            /\ dims = <<1080, 1920>> => aspect = "portrait"
            /\ dims = <<1000, 950>> => aspect = "other"

\* A ratio of exactly 1.7 classified landscape.
C6_Witness == dims = <<17, 10>> /\ aspect = "landscape"

----------------------------------------------------------------------------
(* C7 *)

\* C7: a thumbnail upload by the record's owner with an accepted file is
\* answered 200 (or, in the disk-backed version, 500 when the file write
\* fails, the record then untouched); with 200 the body is the record as
\* stored after the update, its thumbnailURL is a non-null URL, and every
\* other field (id, owner, title, description, creation timestamp, videoURL)
\* has the value stored before the request.
C7_ThumbnailFrame ==
    [][\A s \in Slots :
          LET r == reqs[s]
              v == r.videoId
          IN  (Answers(s) /\ r.handler \in ThumbnailHandlers /\ ByOwner(r)
               /\ AcceptedImage(r.form)) =>
                  \/ /\ reqs'[s].resp.status = 200
                     /\ reqs'[s].resp.body = db'[v]
                     /\ db'[v].thumbnailURL # NullURL
                     /\ db'[v] = [db[v] EXCEPT !.thumbnailURL = db'[v].thumbnailURL]
                     /\ \A w \in DOMAIN db \ {v} : db'[w] = db[w]
                  \/ /\ reqs'[s].resp.status = 500
                     /\ r.handler = "thumbnail"
                     /\ reqs'[s].resp.message = "write failed"
                     /\ db' = db]_vars

\* The owner's thumbnail upload answered 200 for a record that already had
\* a videoURL: the body carries the new thumbnailURL and the old videoURL.
C7_Witness ==
    \E s \in Slots :
        /\ Done(s) /\ reqs[s].handler = "thumbnail" /\ reqs[s].resp.status = 200
        /\ AcceptedImage(reqs[s].form)
        /\ reqs[s].resp.body.thumbnailURL # NullURL
        /\ reqs[s].resp.body.videoURL # NullURL
        /\ reqs[s].resp.body = db[reqs[s].videoId]

----------------------------------------------------------------------------
(* C8 *)

\* C8: a request that has been answered runs no further step; a stored
\* record changes only in the step in which a request returns 200; and a
\* request returns 200 only when each earlier step succeeded: the file was
\* written (thumbnail), the last tool exited 0, the object is in the store
\* and the temp files are deleted (video).
C8_FailureAborts ==
    [][\A s \in Slots :
          /\ Done(s) => reqs'[s] = reqs[s] \/ reqs'[s] = Idle
          /\ (Answers(s) \/ AnswersAtOnce(s)) =>
                LET r == reqs'[s]
                IN  IF r.resp.status # 200 THEN db' = db
                    ELSE /\ r.exitCode = 0
                         /\ r.handler = "thumbnail" =>
                                ThumbnailFile(r.fileName, r.ext) \in assets'
                         /\ r.handler \in VideoHandlers =>
                                /\ S3Key(r.aspectRatio, r.fileName) \in s3'
                                /\ VideoFile(r.fileName) \notin assets'
                                /\ ProcessedFile(r.fileName) \notin assets'
          /\ (reqs'[s] = reqs[s] /\ \A t \in Slots : ~Returns200(t)) => db' = db]_vars

\* A video upload that failed at the remux, answered 500, the store as it was.
C8_Witness ==
    \E s \in Slots :
        /\ Done(s) /\ reqs[s].handler = "video"
        /\ reqs[s].resp.status = 500
        /\ reqs[s].resp.message = "Failed to process video"
        /\ reqs[s].exitCode # 0
        /\ db = InitialVideos

----------------------------------------------------------------------------
(* C9 *)

ProbeRemuxUploadFailures ==
    {"Failed to get video info", "Failed to get video dimensions",
     "Failed to process video", "upload failed"}

\* C9: in the video upload handler a temp file leaves the asset directory
\* only in a deletion step of the request that wrote it, after that
\* request's object is in the store and before it has updated the record;
\* a request that returned 200 has deleted its original and its processed
\* file; a request that failed at the probe, the remux or the upload has
\* deleted nothing, and the files it wrote are still in the directory.
C9_TempFiles ==
    /\ [](\A s \in Slots :
            LET r == reqs[s]
            IN  (Done(s) /\ r.handler \in VideoHandlers) =>
                    /\ r.resp.status = 200 =>
                           /\ VideoFile(r.fileName) \notin assets
                           /\ ProcessedFile(r.fileName) \notin assets
                    /\ r.resp.message \in ProbeRemuxUploadFailures =>
                           VideoFile(r.fileName) \in assets
                    /\ (r.resp.message = "upload failed" /\ r.handler = "video") =>
                           ProcessedFile(r.fileName) \in assets)
    /\ [][/\ \A f \in assets \ assets' :
                \E s \in Slots :
                    LET r == reqs[s]
                    IN  /\ r.handler \in VideoHandlers
                        /\ r.pc \in {"deleteFile", "deleteProcessed"}
                        /\ f \in {VideoFile(r.fileName), ProcessedFile(r.fileName)}
                        /\ S3Key(r.aspectRatio, r.fileName) \in s3
                        /\ db[r.videoId].videoURL # VideoURL(r.aspectRatio, r.fileName)
          /\ \A s \in Slots :
                (Answers(s) /\ reqs'[s].resp.message \in ProbeRemuxUploadFailures) =>
                    assets \subseteq assets']_vars

\* One video upload returned 200 with both its temp files gone, another
\* failed at the upload with both its temp files left behind.
C9_Witness ==
    \E s, t \in Slots :
        /\ Done(s) /\ reqs[s].handler = "video" /\ reqs[s].resp.status = 200
        /\ VideoFile(reqs[s].fileName) \notin assets
        /\ ProcessedFile(reqs[s].fileName) \notin assets
        /\ Done(t) /\ reqs[t].handler = "video" /\ reqs[t].resp.message = "upload failed"
        /\ VideoFile(reqs[t].fileName) \in assets
        /\ ProcessedFile(reqs[t].fileName) \in assets

----------------------------------------------------------------------------
(* C10 *)

\* C10: when a thumbnail upload and a video upload for the same record run
\* interleaved, neither handler's record update changes the other handler's
\* URL field: the step in which a thumbnail upload returns 200 leaves the
\* stored videoURL as it was, and the step in which a video upload returns
\* 200 leaves the stored thumbnailURL as it was.
C10_NoStaleRestore ==
    [][\A s \in Slots :
          Returns200(s) =>
              LET v == reqs[s].videoId
              IN  /\ reqs[s].handler \in ThumbnailHandlers =>
                         db'[v].videoURL = db[v].videoURL
                  /\ reqs[s].handler \in VideoHandlers =>
                         db'[v].thumbnailURL = db[v].thumbnailURL]_vars

====
